---- MODULE Spec2Model ----
(***************************************************************************)
(* Model of the coredhcp "pxe" plugin (plugins/pxe/pxe.go).                *)
(*                                                                         *)
(* A DHCPv4 message carries dhcpv4.Options, a Go map from option code to   *)
(* a byte slice.  A byte slice is a reference to a backing array, so the   *)
(* model keeps a memory `mem` of backing arrays and lets option maps hold  *)
(* addresses.  The plugin has two package-level pointers, opt60 and opt43, *)
(* set by setup4, and one handler, pxeHandler4, invoked by the server's    *)
(* handler chain once per request.                                         *)
(***************************************************************************)
EXTENDS Integers, Sequences, FiniteSets, TLC

\* ---------------------------------------------------------------- bounds
NumCtx == 2                 \* request-handling contexts that may be live at once
LenSlack == 1               \* payload lengths explored around the required ones

\* ------------------------------------------------------ program constants
OptionVendorSpecificInformation == 43
OptionClassIdentifier == 60
OptionClientMachineIdentifier == 97
ClassIdLen == 32
MachineIdLen == 17

\* "PXEClient"
PXEClient == <<80, 88, 69, 67, 108, 105, 101, 110, 116>>
pxe_opt6 == <<6, 1, 8>>
pxe_opt255 == <<255>>

\* codes that are not written by the plugin, used to populate messages
OptionTFTPServerName == 66
OptionBootfileName == 67
OptionClientSystemArchitecture == 93

\* --------------------------------------------------------------- values
Nil == [nil |-> TRUE]                  \* a nil *dhcpv4.Option
NilSlice == <<"nil", 0, 0>>            \* a nil []byte
NoOptions == <<>>                      \* an empty dhcpv4.Options map
Ctx == 1..NumCtx

Rep(b, n) == [k \in 1..n |-> b]

VARIABLES
    opt60,        \* package variable: Nil or the class identifier option
    opt43,        \* package variable: Nil or the vendor information option
    setupPc,      \* position of setup4: "start", "opt60", "opt43", "returned"
    handlers,     \* the server's handler chain (empty until the plugin is loaded)
    mem,          \* backing arrays of all live byte slices: address -> bytes
    pc,           \* per context: "idle", "chain", the handler's position, "done", "panic"
    idx,          \* per context: index in handlers of the handler to run next
    req,          \* per context: the request's Options (code -> address)
    resp,         \* per context: the response's Options (code -> address)
    cmi,          \* per context: pxeHandler4's local slice cmi
    call,         \* per context: state at entry of the running pxeHandler4 call
    trace         \* per context: record of the handler calls made so far

vars == <<opt60, opt43, setupPc, handlers, mem, pc, idx, req, resp, cmi, call, trace>>

\* ------------------------------------------------- dhcpv4 library helpers
\* the payloads an option map shows to a reader
Deref(o, m) == [c \in DOMAIN o |-> m[o[c]]]

Get(o, code) == IF code \in DOMAIN o THEN o[code] ELSE NilSlice

GetOneOption(d, code) == Get(d, code)

\* string(v): a copy of the bytes, "" when the option is absent
GetString(code, o, m) == IF code \in DOMAIN o THEN m[o[code]] ELSE <<>>

ClassIdentifier(d, m) == GetString(OptionClassIdentifier, d, m)

HasPrefix(s, prefix) ==
    Len(s) >= Len(prefix) /\ SubSeq(s, 1, Len(prefix)) = prefix

SliceLen(a, m) == IF a = NilSlice THEN 0 ELSE Len(m[a])

UpdateReplaceAll(o, code, a) == [c \in {code} |-> a]

\* o[code] = slice: replaces the entry of the code, keeps every other entry
Update(o, code, a) ==
    [c \in DOMAIN o \cup {code} |-> IF c = code THEN a ELSE o[c]]

\* memory after storing bytes in a new backing array at address a
Store(m, a, bytes) ==
    [x \in DOMAIN m \cup {a} |-> IF x = a THEN bytes ELSE m[x]]

\* dhcpv4.OptClassIdentifier(name): the value is a Go string
OptClassIdentifier(name) == [Code |-> OptionClassIdentifier, Str |-> name]

\* dhcpv4.OptGeneric(code, value): the value keeps the slice it was given
OptGeneric(code, a) == [Code |-> code, Data |-> a]

\* ------------------------------------------------------------- addresses
TemplateAddr == <<"tmpl", 0, OptionVendorSpecificInformation>>
ReqAddr(i, code) == <<"req", i, code>>
RespAddr(i, code) == <<"resp", i, code>>
StrAddr(i, k) == <<"str", i, k>>       \* []byte(string) made by call k of context i
OthAddr(i, k) == <<"oth", i, k>>       \* array made by another handler

\* ---------------------------------------------------------------- setup4
\* append(pxe_opt6[:], pxe_opt255[:]...)
VendorInfo == pxe_opt6 \o pxe_opt255

Init ==
    /\ opt60 = Nil
    /\ opt43 = Nil
    /\ setupPc = "start"
    /\ handlers = <<>>
    /\ mem = <<>>
    /\ pc = [i \in Ctx |-> "idle"]
    /\ idx = [i \in Ctx |-> 0]
    /\ req = [i \in Ctx |-> NoOptions]
    /\ resp = [i \in Ctx |-> NoOptions]
    /\ cmi = [i \in Ctx |-> NilSlice]
    /\ call = [i \in Ctx |-> NoOptions]
    /\ trace = [i \in Ctx |-> <<>>]

\* oci := dhcpv4.OptClassIdentifier("PXEClient"); opt60 = &oci
Setup4Opt60 ==
    /\ setupPc = "start"
    /\ opt60' = OptClassIdentifier(PXEClient)
    /\ setupPc' = "opt60"
    /\ UNCHANGED <<opt43, handlers, mem, pc, idx, req, resp, cmi, call, trace>>

\* ovsi := dhcpv4.OptGeneric(43, append(...)); opt43 = &ovsi
Setup4Opt43 ==
    /\ setupPc = "opt60"
    /\ mem' = Store(mem, TemplateAddr, VendorInfo)
    /\ opt43' = OptGeneric(OptionVendorSpecificInformation, TemplateAddr)
    /\ setupPc' = "opt43"
    /\ UNCHANGED <<opt60, handlers, pc, idx, req, resp, cmi, call, trace>>

Setup4ReturnEarly(chains) ==
    /\ setupPc = "start"
    /\ setupPc' = "returned"
    /\ handlers' \in chains
    /\ UNCHANGED <<opt60, opt43, mem, pc, idx, req, resp, cmi, call, trace>>

\* return pxeHandler4, nil: the server appends the handler to its chain
Setup4Return(chains) ==
    /\ setupPc = "opt43"
    /\ setupPc' = "returned"
    /\ handlers' \in chains
    /\ UNCHANGED <<opt60, opt43, mem, pc, idx, req, resp, cmi, call, trace>>

\* ----------------------------------------------------------- pxeHandler4
IsPXERequestPrefixOnly(rq, m) ==
    HasPrefix(ClassIdentifier(rq, m), PXEClient)

\* len(req.ClassIdentifier()) == 32 && strings.HasPrefix(..., "PXEClient")
IsPXERequest(rq, m) ==
    /\ Len(ClassIdentifier(rq, m)) = ClassIdLen
    /\ HasPrefix(ClassIdentifier(rq, m), PXEClient)

HasMachineIdAtLeast(c, m) == SliceLen(c, m) >= MachineIdLen

\* the negation of: len(cmi) != 17
HasMachineId(c, m) == SliceLen(c, m) = MachineIdLen

\* the three boolean results of the handler
RetNotPXEStop == TRUE
RetNotPXE == FALSE
RetNoMachineId == FALSE
RetAugmentedStop == TRUE
RetAugmented == FALSE

WriteOpt60Echo(rq, rs, m, o60, fresh) ==
    [resp |-> Update(rs, o60.Code, fresh),
     mem  |-> Store(m, fresh, ClassIdentifier(rq, m))]

WriteOpt60Append(rq, rs, m, o60, fresh) ==
    [resp |-> Update(rs, o60.Code, fresh),
     mem  |-> Store(m, fresh, GetString(o60.Code, rs, m) \o o60.Str)]

\* resp.Options.Update(*opt60): String.ToBytes() makes a new array
WriteOpt60(rq, rs, m, o60, fresh) ==
    [resp |-> Update(rs, o60.Code, fresh),
     mem  |-> Store(m, fresh, o60.Str)]

\* resp.UpdateOption(dhcpv4.OptGeneric(97, cmi)): OptionGeneric.ToBytes()
\* returns the slice it holds, so the response shares the request's array
WriteOpt97(rs, m, c) ==
    [resp |-> Update(rs, OptionClientMachineIdentifier,
                     OptGeneric(OptionClientMachineIdentifier, c).Data),
     mem  |-> m]

WriteOpt43Scribble(rs, m, o43) ==
    [resp |-> Update(rs, o43.Code, o43.Data),
     mem  |-> [m EXCEPT ![o43.Data] = m[o43.Data] \o pxe_opt255]]

\* resp.UpdateOption(*opt43): the response shares the template's array
WriteOpt43(rs, m, o43) ==
    [resp |-> Update(rs, o43.Code, o43.Data),
     mem  |-> m]

Ret(rs, m, stop) == [resp |-> rs, mem |-> m, stop |-> stop, panic |-> FALSE]
Panic(rs, m) == [resp |-> rs, mem |-> m, stop |-> FALSE, panic |-> TRUE]

\* the whole handler, run without interruption; a nil template pointer is
\* dereferenced at the statement that uses it
pxeHandler4(rq, rs, m, o60, o43, fresh) ==
    IF ~IsPXERequest(rq, m) THEN Ret(rs, m, RetNotPXE)
    ELSE LET c == GetOneOption(rq, OptionClientMachineIdentifier) IN
         IF ~HasMachineId(c, m) THEN Ret(rs, m, RetNoMachineId)
         ELSE IF o60 = Nil THEN Panic(rs, m)
         ELSE LET r1 == WriteOpt60(rq, rs, m, o60, fresh)
                  r2 == WriteOpt97(r1.resp, r1.mem, c)
              IN  IF o43 = Nil THEN Panic(r2.resp, r2.mem)
                  ELSE LET r3 == WriteOpt43(r2.resp, r2.mem, o43)
                       IN  Ret(r3.resp, r3.mem, RetAugmented)

\* ------------------------------------------------ the server's chain
\* the part of memory a call can reach: through its two arguments and
\* through the package variables
Visible(rq, rs, m) ==
    [a \in {rq[c] : c \in DOMAIN rq} \cup {rs[c] : c \in DOMAIN rs}
           \cup ({TemplateAddr} \cap DOMAIN m) |-> m[a]]

\* what a call leaves behind for inspection: the arguments as they were at
\* entry (req, before, mem0) and the outcome at return
Entry(h, rq, before, m0, rs, m, stop) ==
    [h |-> h, req |-> rq, before |-> before, mem0 |-> Visible(rq, before, m0),
     resp |-> rs, after |-> Deref(rs, m), reqAfter |-> Deref(rq, m),
     stop |-> stop]

\* for _, h := range handlers { resp, stop = h(req, resp); if stop { break } }
Advance(i, stop) ==
    IF stop \/ idx[i] = Len(handlers)
    THEN pc' = [pc EXCEPT ![i] = "done"] /\ idx' = idx
    ELSE pc' = [pc EXCEPT ![i] = "chain"] /\ idx' = [idx EXCEPT ![i] = idx[i] + 1]

\* a request arrives in context i with options rq; the response built so
\* far has options rs; every payload has a backing array of its own
Receive(i, requests, responses) ==
    /\ setupPc = "returned"
    /\ pc[i] = "idle"
    /\ \E rq \in requests, rs \in responses :
         /\ req' = [req EXCEPT ![i] = [c \in DOMAIN rq |-> ReqAddr(i, c)]]
         /\ resp' = [resp EXCEPT ![i] = [c \in DOMAIN rs |-> RespAddr(i, c)]]
         /\ mem' = [a \in DOMAIN mem \cup {ReqAddr(i, c) : c \in DOMAIN rq}
                                     \cup {RespAddr(i, c) : c \in DOMAIN rs} |->
                      IF a \in DOMAIN mem THEN mem[a]
                      ELSE IF a[1] = "req" THEN rq[a[3]] ELSE rs[a[3]]]
    /\ pc' = [pc EXCEPT ![i] = "chain"]
    /\ idx' = [idx EXCEPT ![i] = 1]
    /\ UNCHANGED <<opt60, opt43, setupPc, handlers, cmi, call, trace>>

\* the chain calls pxeHandler4, which runs to its return
RunPxe(i) ==
    /\ pc[i] = "chain"
    /\ handlers[idx[i]] = "pxe"
    /\ LET r == pxeHandler4(req[i], resp[i], mem, opt60, opt43, StrAddr(i, idx[i]))
       IN  /\ resp' = [resp EXCEPT ![i] = r.resp]
           /\ mem' = r.mem
           /\ IF r.panic
              THEN pc' = [pc EXCEPT ![i] = "panic"] /\ UNCHANGED <<idx, trace>>
              ELSE /\ trace' = [trace EXCEPT ![i] = Append(@,
                          Entry("pxe", req[i], resp[i], mem, r.resp, r.mem, r.stop))]
                   /\ Advance(i, r.stop)
    /\ UNCHANGED <<opt60, opt43, setupPc, handlers, req, cmi, call>>

\* another plugin of the chain: sets the boot file name from a new array
\* and decides for itself whether the chain stops
RunOther(i) ==
    /\ pc[i] = "chain"
    /\ handlers[idx[i]] = "other"
    /\ \E stop \in BOOLEAN :
         LET a  == OthAddr(i, idx[i])
             rs == Update(resp[i], OptionBootfileName, a)
             m  == Store(mem, a, <<98>>)
         IN  /\ resp' = [resp EXCEPT ![i] = rs]
             /\ mem' = m
             /\ trace' = [trace EXCEPT ![i] = Append(@,
                            Entry("other", req[i], resp[i], mem, rs, m, stop))]
             /\ Advance(i, stop)
    /\ UNCHANGED <<opt60, opt43, setupPc, handlers, req, cmi, call>>

\* the reply is sent and the context's messages are dropped
Finish(i) ==
    /\ pc[i] = "done"
    /\ pc' = [pc EXCEPT ![i] = "idle"]
    /\ idx' = [idx EXCEPT ![i] = 0]
    /\ req' = [req EXCEPT ![i] = NoOptions]
    /\ resp' = [resp EXCEPT ![i] = NoOptions]
    /\ cmi' = [cmi EXCEPT ![i] = NilSlice]
    /\ call' = [call EXCEPT ![i] = NoOptions]
    /\ trace' = [trace EXCEPT ![i] = <<>>]
    /\ mem' = [a \in {x \in DOMAIN mem : x[2] # i} |-> mem[a]]
    /\ UNCHANGED <<opt60, opt43, setupPc, handlers>>

\* ---------------------------------------------------------------- inputs
MaxChain == 3

\* ":Arch:00000:UNDI:002001"
ArchSuffix == <<58, 65, 114, 99, 104, 58, 48, 48, 48, 48, 48, 58,
                85, 78, 68, 73, 58, 48, 48, 50, 48, 48, 49>>

ClassLens == (ClassIdLen - LenSlack)..(ClassIdLen + LenSlack)
MachineLens == (MachineIdLen - LenSlack)..(MachineIdLen + LenSlack)

ClassIds ==
    {PXEClient \o Rep(48, n - Len(PXEClient)) : n \in ClassLens}
    \cup {Rep(65, n) : n \in ClassLens}
    \cup {PXEClient \o ArchSuffix, PXEClient, <<>>,
          <<112>> \o SubSeq(PXEClient, 2, 9) \o ArchSuffix,
          SubSeq(PXEClient, 1, 8) \o <<84>> \o ArchSuffix,
          <<32>> \o PXEClient \o Rep(48, 22)}

MachineIds ==
    {Rep(b, n) : b \in {0, 255}, n \in MachineLens}
    \cup {<<0>> \o Rep(171, MachineIdLen - 1), <<>>}

\* an optional payload is a sequence of at most one payload
Opt(S) == {<<>>} \cup {<<v>> : v \in S}

\* the option map holding the present ones of the given optional payloads
Options4(c1, v1, c2, v2, c3, v3, c4, v4) ==
    [c \in {x \in {c1} : v1 # <<>>} \cup {x \in {c2} : v2 # <<>>}
           \cup {x \in {c3} : v3 # <<>>} \cup {x \in {c4} : v4 # <<>>} |->
       IF c = c1 THEN v1[1] ELSE IF c = c2 THEN v2[1]
       ELSE IF c = c3 THEN v3[1] ELSE v4[1]]

MkReq(cls, mid) ==
    Options4(OptionClassIdentifier, cls, OptionClientMachineIdentifier, mid,
             OptionClientSystemArchitecture, <<<<0, 0>>>>,
             OptionClientSystemArchitecture, <<<<0, 0>>>>)

ReqInputs == {MkReq(cls, mid) : cls \in Opt(ClassIds), mid \in Opt(MachineIds)}

RespInputs ==
    {Options4(OptionClassIdentifier, c, OptionVendorSpecificInformation, v,
              OptionClientMachineIdentifier, u, OptionTFTPServerName, t) :
        c \in Opt({PXEClient \o ArchSuffix, <<1>>}),
        v \in Opt({VendorInfo, <<9, 1, 0, 255>>}),
        u \in Opt({Rep(7, MachineIdLen)}),
        t \in Opt({<<10>>})}

RECURSIVE SeqsUpTo(_, _)
SeqsUpTo(S, n) ==
    IF n = 0 THEN {<<>>}
    ELSE LET T == SeqsUpTo(S, n - 1) IN T \cup {Append(t, x) : t \in T, x \in S}

\* the chains a configuration can build around the plugin
Chains == {c \in SeqsUpTo({"pxe", "other"}, MaxChain) : \E k \in DOMAIN c : c[k] = "pxe"}

\* ------------------------------------- one request at a time, all inputs
Next ==
    \/ Setup4Opt60
    \/ Setup4Opt43
    \/ Setup4Return(Chains)
    \/ Receive(1, ReqInputs, RespInputs)
    \/ RunPxe(1)
    \/ RunOther(1)
    \/ Finish(1)

Spec == Init /\ [][Next]_vars

\* --------------------------------- the handler, statement by statement
\* lines 181-190: the two checks; they read the request only
PxeCheck(i) ==
    /\ pc[i] = "chain"
    /\ handlers[idx[i]] = "pxe"
    /\ LET c == GetOneOption(req[i], OptionClientMachineIdentifier)
           entry(stop) == Entry("pxe", req[i], resp[i], mem, resp[i], mem, stop)
       IN  IF ~IsPXERequest(req[i], mem)
           THEN /\ trace' = [trace EXCEPT ![i] = Append(@, entry(RetNotPXE))]
                /\ Advance(i, RetNotPXE)
                /\ UNCHANGED <<cmi, call>>
           ELSE IF ~HasMachineId(c, mem)
           THEN /\ trace' = [trace EXCEPT ![i] = Append(@, entry(RetNoMachineId))]
                /\ Advance(i, RetNoMachineId)
                /\ UNCHANGED <<cmi, call>>
           ELSE /\ cmi' = [cmi EXCEPT ![i] = c]
                /\ call' = [call EXCEPT ![i] = [before |-> resp[i],
                                               mem0 |-> Visible(req[i], resp[i], mem)]]
                /\ pc' = [pc EXCEPT ![i] = "opt60"]
                /\ UNCHANGED <<idx, trace>>
    /\ UNCHANGED <<opt60, opt43, setupPc, handlers, mem, req, resp>>

\* line 192
PxeOpt60(i) ==
    /\ pc[i] = "opt60"
    /\ IF opt60 = Nil
       THEN pc' = [pc EXCEPT ![i] = "panic"] /\ UNCHANGED <<resp, mem>>
       ELSE LET r == WriteOpt60(req[i], resp[i], mem, opt60, StrAddr(i, idx[i]))
            IN  /\ resp' = [resp EXCEPT ![i] = r.resp]
                /\ mem' = r.mem
                /\ pc' = [pc EXCEPT ![i] = "opt97"]
    /\ UNCHANGED <<opt60, opt43, setupPc, handlers, idx, req, cmi, call, trace>>

\* line 193
PxeOpt97(i) ==
    /\ pc[i] = "opt97"
    /\ LET r == WriteOpt97(resp[i], mem, cmi[i])
       IN  /\ resp' = [resp EXCEPT ![i] = r.resp]
           /\ mem' = r.mem
    /\ pc' = [pc EXCEPT ![i] = "opt43"]
    /\ UNCHANGED <<opt60, opt43, setupPc, handlers, idx, req, cmi, call, trace>>

\* lines 194-198
PxeOpt43(i) ==
    /\ pc[i] = "opt43"
    /\ IF opt43 = Nil
       THEN pc' = [pc EXCEPT ![i] = "panic"] /\ UNCHANGED <<resp, mem, idx, trace>>
       ELSE LET r == WriteOpt43(resp[i], mem, opt43)
            IN  /\ resp' = [resp EXCEPT ![i] = r.resp]
                /\ mem' = r.mem
                /\ trace' = [trace EXCEPT ![i] = Append(@,
                       Entry("pxe", req[i], call[i].before, call[i].mem0,
                             r.resp, r.mem, RetAugmented))]
                /\ Advance(i, RetAugmented)
    /\ UNCHANGED <<opt60, opt43, setupPc, handlers, req, cmi, call>>

\* a later plugin that edits a payload of the response where it lies:
\* resp.Options[code][k-1] = 0 for a code among 43 and 97
RunScribble(i) ==
    /\ pc[i] = "chain"
    /\ handlers[idx[i]] = "scribble"
    /\ LET codes == {OptionVendorSpecificInformation, OptionClientMachineIdentifier}
                        \cap DOMAIN resp[i]
       IN  /\ IF codes = {} THEN mem' = mem
              ELSE \E code \in codes : \E k \in {1, Len(mem[resp[i][code]])} :
                     mem' = [mem EXCEPT ![resp[i][code]][k] = 0]
           /\ trace' = [trace EXCEPT ![i] = Append(@,
                 Entry("scribble", req[i], resp[i], mem, resp[i], mem', FALSE))]
           /\ Advance(i, FALSE)
    /\ UNCHANGED <<opt60, opt43, setupPc, handlers, req, resp, cmi, call>>

\* a few requests and responses for the runs with several contexts
SmallReqInputs ==
    {MkReq(cls, mid) : cls \in {<<PXEClient \o ArchSuffix>>, <<PXEClient>>},
                       mid \in {<<Rep(0, MachineIdLen)>>,
                                <<<<0>> \o Rep(171, MachineIdLen - 1)>>, <<>>}}

SmallRespInputs ==
    {Options4(OptionClassIdentifier, <<>>, OptionVendorSpecificInformation, v,
              OptionClientMachineIdentifier, <<>>, OptionTFTPServerName, <<<<10>>>>) :
        v \in Opt({<<9, 1, 0, 255>>})}

\* ---------------------- concurrent contexts, interleaved at statements
NextConc ==
    \/ Setup4Opt60
    \/ Setup4Opt43
    \/ Setup4Return({<<"pxe">>})
    \/ \E i \in Ctx :
         \/ Receive(i, SmallReqInputs, SmallRespInputs)
         \/ PxeCheck(i)
         \/ PxeOpt60(i)
         \/ PxeOpt97(i)
         \/ PxeOpt43(i)
         \/ Finish(i)

SpecConc == Init /\ [][NextConc]_vars

\* ------------------ concurrent contexts with an editing plugin behind
NextChain ==
    \/ Setup4Opt60
    \/ Setup4Opt43
    \/ Setup4Return({<<"pxe", "scribble">>})
    \/ \E i \in Ctx :
         \/ Receive(i, SmallReqInputs, SmallRespInputs)
         \/ RunPxe(i)
         \/ RunScribble(i)
         \/ Finish(i)

SpecChain == Init /\ [][NextChain]_vars

\* ================================================================ claims
\* the handler calls recorded so far, and those of pxeHandler4 among them
Calls == UNION {{trace[i][k] : k \in DOMAIN trace[i]} : i \in Ctx}
PxeCalls == {e \in Calls : e.h = "pxe"}

\* the payloads of the request and of the response at entry of a call
ReqV(e) == Deref(e.req, e.mem0)
BeforeV(e) == Deref(e.before, e.mem0)

\* the literal byte strings the claims speak of
ClassBytes == <<80, 88, 69, 67, 108, 105, 101, 110, 116>>
VendorBytes == <<6, 1, 8, 255>>
PxeCodes == {43, 60, 97}

\* option 60 is exactly 32 bytes and starts with "PXEClient"
QualifiesClass(e) ==
    /\ 60 \in DOMAIN ReqV(e)
    /\ Len(ReqV(e)[60]) = 32
    /\ \A k \in 1..9 : ReqV(e)[60][k] = ClassBytes[k]

\* option 97 is exactly 17 bytes
QualifiesMachine(e) ==
    /\ 97 \in DOMAIN ReqV(e)
    /\ Len(ReqV(e)[97]) = 17

\* the response is the one passed in: same entries, same arrays, same bytes
Unchanged(e) == e.resp = e.before /\ e.after = BeforeV(e)

\* C1: for a request with a 32-byte option 60 starting with "PXEClient" and
\* a 17-byte option 97, and any prior response, the response after
\* pxeHandler4 has option 60 = "PXEClient", option 97 = the request's 17
\* bytes, option 43 = 06 01 08 FF, whatever the codes held before
C1_Augments ==
    \A e \in PxeCalls :
        QualifiesClass(e) /\ QualifiesMachine(e) =>
            /\ PxeCodes \subseteq DOMAIN e.after
            /\ e.after[60] = ClassBytes
            /\ e.after[97] = ReqV(e)[97]
            /\ e.after[43] = VendorBytes

C1_Witness ==
    \E e \in PxeCalls :
        /\ QualifiesClass(e) /\ QualifiesMachine(e)
        /\ ReqV(e)[97][2] = 171
        /\ PxeCodes \subseteq DOMAIN BeforeV(e)
        /\ BeforeV(e)[43] = <<9, 1, 0, 255>>
        /\ BeforeV(e)[60] # ClassBytes
        /\ BeforeV(e)[97] # ReqV(e)[97]
        /\ e.after[43] = VendorBytes

\* C2: when option 60 is absent, or not 32 bytes long, or does not start
\* with "PXEClient", the handler returns the response unchanged and false,
\* whatever option 97 holds
C2_NotPXEUnchanged ==
    \A e \in PxeCalls : ~QualifiesClass(e) => Unchanged(e) /\ e.stop = FALSE

C2_Witness ==
    \E e \in PxeCalls :
        /\ 60 \in DOMAIN ReqV(e)
        /\ Len(ReqV(e)[60]) = 33
        /\ SubSeq(ReqV(e)[60], 1, 9) = ClassBytes
        /\ QualifiesMachine(e)
        /\ Unchanged(e)

\* C3: when option 60 qualifies but option 97 is absent or not 17 bytes
\* long, the handler returns the response unchanged (options 60 and 43 are
\* not written) and false
C3_NoMachineIdUnchanged ==
    \A e \in PxeCalls :
        QualifiesClass(e) /\ ~QualifiesMachine(e) => Unchanged(e) /\ e.stop = FALSE

C3_Witness ==
    \E e \in PxeCalls :
        /\ QualifiesClass(e)
        /\ 97 \in DOMAIN ReqV(e)
        /\ Len(ReqV(e)[97]) = 18
        /\ 43 \notin DOMAIN e.after
        /\ Unchanged(e)

\* the call stored the three options: 43 is the template's array, 97 the
\* request's array, 60 an array made by this call
Wrote(e) ==
    /\ PxeCodes \subseteq DOMAIN e.resp
    /\ e.resp[43] = TemplateAddr
    /\ e.resp[97] = Get(e.req, 97)
    /\ e.resp[60][1] = "str"

\* C4 as stated: the boolean result is true exactly when the request passes
\* both checks and the options are written, false exactly when the response
\* is returned unchanged
C4_MatchedAsStated ==
    \A e \in PxeCalls :
        /\ e.stop = TRUE <=> (QualifiesClass(e) /\ QualifiesMachine(e) /\ Wrote(e))
        /\ e.stop = FALSE <=> Unchanged(e)

\* C4 amended: the boolean result is false for every request; the three
\* options are written exactly when the request passes both checks, and
\* the response is returned unchanged whenever it does not
C4_ResultAlwaysFalse ==
    \A e \in PxeCalls :
        /\ e.stop = FALSE
        /\ Wrote(e) <=> (QualifiesClass(e) /\ QualifiesMachine(e))
        /\ ~(QualifiesClass(e) /\ QualifiesMachine(e)) => Unchanged(e)

C4_Witness ==
    \E e \in PxeCalls :
        /\ QualifiesClass(e) /\ QualifiesMachine(e)
        /\ Wrote(e) /\ ~Unchanged(e)
        /\ e.stop = FALSE

\* C5: the handler never tells the chain to stop, augmented or not, so a
\* chain that ends before its last handler did not end at the PXE handler:
\* every handler placed after it runs
C5_ChainContinues ==
    /\ \A e \in PxeCalls : e.stop = FALSE
    /\ \A i \in Ctx :
         /\ pc[i] = "chain" => idx[i] = Len(trace[i]) + 1
         /\ pc[i] = "done" /\ Len(trace[i]) < Len(handlers) =>
                trace[i][Len(trace[i])].h # "pxe"
         /\ \A k \in DOMAIN trace[i] : trace[i][k].h = handlers[k]

C5_Witness ==
    \E i \in Ctx : \E k \in DOMAIN trace[i] :
        /\ trace[i][k].h = "pxe"
        /\ Wrote(trace[i][k])
        /\ k + 1 \in DOMAIN trace[i]
        /\ trace[i][k + 1].h = "other"

\* C6: after the handler every code that was in the response is still in
\* it, every code other than 60, 43 and 97 has the payload it had, no other
\* code appears, and the request's options are as they were
C6_Frame ==
    \A e \in PxeCalls :
        /\ DOMAIN e.before \subseteq DOMAIN e.resp
        /\ DOMAIN e.resp \subseteq DOMAIN e.before \cup PxeCodes
        /\ \A c \in DOMAIN e.before \ PxeCodes : e.after[c] = BeforeV(e)[c]
        /\ e.reqAfter = ReqV(e)

C6_Witness ==
    \E e \in PxeCalls :
        /\ Wrote(e)
        /\ {66, 67} \subseteq DOMAIN e.before
        /\ DOMAIN e.before \cap PxeCodes = {}
        /\ e.after[66] = <<10>>

\* C7: running the handler twice in a row with the same request gives the
\* response that running it once gives
C7_Idempotent ==
    \A i \in Ctx : \A k \in DOMAIN trace[i] :
        (k + 1 \in DOMAIN trace[i] /\ trace[i][k].h = "pxe" /\ trace[i][k + 1].h = "pxe")
            => /\ trace[i][k + 1].after = trace[i][k].after
               /\ trace[i][k + 1].stop = trace[i][k].stop
               /\ ReqV(trace[i][k + 1]) = ReqV(trace[i][k])

C7_Witness ==
    \E i \in Ctx : \E k \in DOMAIN trace[i] :
        /\ k + 1 \in DOMAIN trace[i]
        /\ trace[i][k].h = "pxe" /\ trace[i][k + 1].h = "pxe"
        /\ Wrote(trace[i][k]) /\ Wrote(trace[i][k + 1])
        /\ 60 \in DOMAIN trace[i][k].before
        /\ trace[i][k + 1].after[60] = ClassBytes

\* the outcome of the call had it run with nothing else running
Alone(e) == pxeHandler4(e.req, e.before, e.mem0, opt60, opt43, StrAddr(0, 0))

\* C8: once setup4 has returned, under any interleaving of concurrent
\* pxeHandler4 calls opt60 stays "PXEClient" and opt43 stays 06 01 08 FF,
\* and every call returns what it would return had it run alone
C8_TemplatesReadOnly ==
    setupPc = "returned" =>
        /\ opt60 = [Code |-> 60, Str |-> ClassBytes]
        /\ opt43 = [Code |-> 43, Data |-> TemplateAddr]
        /\ mem[TemplateAddr] = VendorBytes
        /\ \A e \in PxeCalls :
             /\ e.after = Deref(Alone(e).resp, Alone(e).mem)
             /\ e.stop = Alone(e).stop
             /\ ~Alone(e).panic

C8_Witness ==
    \E i \in Ctx, j \in Ctx :
        /\ i # j
        /\ pc[i] = "opt97"
        /\ pc[j] = "done"
        /\ Wrote(trace[j][1])
        /\ trace[j][1].after[97] # Deref(req[i], mem)[97]
        /\ Deref(resp[i], mem)[60] = ClassBytes
        /\ trace[j][1].after[43] = VendorBytes

\* C9: a request is handled only after setup4 has built both templates and
\* returned the handler; no call ever dereferences an unset template
C9_SetupPrecedesHandling ==
    /\ setupPc = "returned" => handlers # <<>> /\ opt60 # Nil /\ opt43 # Nil
    /\ \A i \in Ctx :
         pc[i] # "idle" =>
            /\ setupPc = "returned"
            /\ opt60 # Nil /\ opt43 # Nil
            /\ pc[i] # "panic"

C9_Witness ==
    /\ setupPc = "returned"
    /\ \E e \in PxeCalls : Wrote(e) /\ e.after[43] = VendorBytes

\* C10 as stated: when a later handler edits in place the option 43 or
\* option 97 bytes of an augmented response, the opt43 template, the
\* option 43 of every response augmented before or after, and the
\* request's option 97 keep their bytes
C10_NoSharedPayload ==
    /\ opt43 # Nil => mem[opt43.Data] = VendorBytes
    /\ \A e \in Calls : e.reqAfter = ReqV(e)
    /\ \A e \in PxeCalls : Wrote(e) => e.after[43] = VendorBytes
    /\ \A i \in Ctx :
         (pc[i] = "chain" /\ idx[i] = 2 /\ Wrote(trace[i][1]))
            => Deref(resp[i], mem)[43] = VendorBytes

====
